---- MODULE Spec2Model ----
(***************************************************************************)
(* homework_bot (src/homework.py): a single-threaded poll loop that asks   *)
(* a status endpoint for homework reviews and reports status changes to a  *)
(* chat.                                                                   *)
(*                                                                         *)
(* Conventions of the model                                                *)
(*  - a Python str built by an f-string is the sequence of its parts, so   *)
(*    '' is <<>> and "contains the name" is membership in the sequence;    *)
(*    the Russian literals are transliterated to ASCII;                    *)
(*  - a decoded JSON value is a record: "type" is the Python type name,    *)
(*    "keys" the keys a dict holds; a field whose key is absent holds a    *)
(*    fixed filler that no operator reads;                                 *)
(*  - a function call yields a record: raised / exc (the exception that    *)
(*    leaves the function) / value (what it returns) / log (the records    *)
(*    it logs) and, where it writes state, the state after it.             *)
(***************************************************************************)
EXTENDS Integers, Sequences, FiniteSets, TLC

VARIABLES
    TELEGRAM_CHAT_ID,   \* module globals read from the environment (l.30-32)
    TELEGRAM_TOKEN,
    PRACTICUM_TOKEN,
    pc,                 \* position of main: "start", "loop", "sleep", "fatal"
                        \* ("observe" where parse_status is called on its own)
    timestamp,          \* main's local: the watermark of the next request
    homework_statuses,  \* module global: name -> last status seen
    response,           \* main's local: what get_api_answer returned (l.150)
    from_date,          \* the from_date parameter of the latest request
    reply,              \* what the endpoint did with this iteration's request
    prev_failed,        \* history: the iteration before this one ended in l.156-159
    calls,              \* the functions main called in this iteration
    sent,               \* the bot.send_message calls of this iteration
    log,                \* the log records of this iteration (or of startup)
    status,             \* main's local: what parse_status returned (l.153)
    observed,           \* the argument of this iteration's parse_status call
    error,              \* the exception main caught in this iteration, or died of
    ticks,              \* history: iterations run
    transitions,        \* history: calls of parse_status that returned a message
    transitionSends     \* history: bot.send_message calls given such a message

progVars == <<TELEGRAM_CHAT_ID, TELEGRAM_TOKEN, PRACTICUM_TOKEN, pc, timestamp,
              homework_statuses, response, from_date, reply, calls, sent,
              log, status, observed, error>>
histVars == <<prev_failed, ticks, transitions, transitionSends>>
vars == <<progVars, histVars>>

----------------------------------------------------------------------------
(* Bounds of the model *)

MaxItems == 2     \* longest 'homeworks' list the endpoint returns
MaxDate == 2      \* largest 'current_date' / start time
MaxTicks == 3     \* iterations counted by the history counters of Spec

----------------------------------------------------------------------------
(* Program constants *)

HTTP_OK == 200
Unassigned == -1          \* a local of main before its first assignment

HOMEWORK_VERDICTS ==
    [approved  |-> "Rabota proverena: revyueru vsyo ponravilos. Ura!",
     reviewing |-> "Rabota vzyata na proverku revyuerom.",
     rejected  |-> "Rabota proverena: u revyuera est zamechaniya."]

NoneValue == "<None>"     \* os.getenv of a variable that is not set

----------------------------------------------------------------------------
(* Values *)

NoExc == [type |-> "none", msg |-> <<>>]
Exc(t, m) == [type |-> t, msg |-> m]

\* str(error): KeyError shows the repr of its argument, the others the text
StrExc(e) == IF e.type = "KeyError" THEN <<"'">> \o e.msg \o <<"'">> ELSE e.msg

LogRec(lg, lvl, m) == [logger |-> lg, level |-> lvl, msg |-> m]

Returns(v, lg) == [raised |-> FALSE, exc |-> NoExc, value |-> v, log |-> lg]
Raises(e, lg) == [raised |-> TRUE, exc |-> e, value |-> <<>>, log |-> lg]

\* ", ".join(seq)
RECURSIVE Join(_)
Join(seq) ==
    IF Len(seq) = 0 THEN <<>>
    ELSE IF Len(seq) = 1 THEN seq
    ELSE <<Head(seq), ", ">> \o Join(Tail(seq))

\* the comprehension stopped at the first key that is not present
Missing_first_only(keys, present) ==
    LET absent == {i \in DOMAIN keys : keys[i] \notin present}
    IN  IF absent = {} THEN <<>>
        ELSE <<keys[CHOOSE i \in absent : \A j \in absent : i <= j]>>

\* [key for key in keys if key not in present]
RECURSIVE Missing(_, _)
Missing(keys, present) ==
    IF Len(keys) = 0 THEN <<>>
    ELSE (IF Head(keys) \in present THEN <<>> ELSE <<Head(keys)>>)
         \o Missing(Tail(keys), present)

Item(keys, st, name) == [keys |-> keys, status |-> st, homework_name |-> name]

Payload(type, keys, hwType, hws, date) ==
    [type |-> type, keys |-> keys, homeworks_type |-> hwType,
     homeworks |-> hws, current_date |-> date]

NonePayload == Payload("NoneType", {}, "none", <<>>, 0)
Unbound == Payload("unbound", {}, "none", <<>>, 0)
EmptyTable == [n \in {} |-> ""]
NoItem == Item({}, "", "")

----------------------------------------------------------------------------
(* check_tokens, l.48-54 *)

Falsy(v) == v = NoneValue \/ v = ""

\* l.52 testing `var is None`
check_tokens_none_only ==
    LET vs == <<TELEGRAM_CHAT_ID, TELEGRAM_TOKEN, PRACTICUM_TOKEN>>
    IN  \A i \in 1..Len(vs) : vs[i] # NoneValue

check_tokens ==
    LET vs == <<TELEGRAM_CHAT_ID, TELEGRAM_TOKEN, PRACTICUM_TOKEN>>
    IN  \A i \in 1..Len(vs) : ~Falsy(vs[i])

----------------------------------------------------------------------------
(* send_message, l.57-64.  delivery is what bot.send_message does with the *)
(* call: "ok", or "fail" when it raises.                                   *)

Attempt(message, delivered) ==
    [chat_id |-> TELEGRAM_CHAT_ID, text |-> message, delivered |-> delivered]

send_message_propagates(message, delivery) ==
    IF delivery = "ok"
    THEN [raised |-> FALSE, exc |-> NoExc,
          sent |-> <<Attempt(message, TRUE)>>,
          log |-> <<LogRec("root", "DEBUG", <<"Message sent">>)>>]
    ELSE [raised |-> TRUE, exc |-> Exc("TelegramError", <<"delivery failed">>),
          sent |-> <<Attempt(message, FALSE)>>,
          log |-> <<>>]

send_message(message, delivery) ==
    IF delivery = "ok"
    THEN [raised |-> FALSE, exc |-> NoExc,
          sent |-> <<Attempt(message, TRUE)>>,
          log |-> <<LogRec("root", "DEBUG", <<"Message sent">>)>>]
    ELSE [raised |-> FALSE, exc |-> NoExc,
          sent |-> <<Attempt(message, FALSE)>>,
          log |-> <<LogRec("root", "ERROR",
                           <<"Error sending message: ", "delivery failed">>)>>]

----------------------------------------------------------------------------
(* get_api_answer, l.67-85.  outcome is what the endpoint does with the    *)
(* request: kind "transport" when requests.get raises, else an HTTP reply  *)
(* with a status code and a body that decodes (json_ok) to "body" or not.  *)

\* l.73-80, the body of the try statement
Request(ts, outcome) ==
    IF outcome.kind = "transport"
    THEN Raises(Exc("ConnectionError", <<"connection failed">>), <<>>)
    ELSE IF outcome.status_code # HTTP_OK
    THEN Raises(Exc("StatusCodeError",
                    <<"Status code is different from 200 : ",
                      ToString(outcome.status_code)>>), <<>>)
    ELSE IF ~outcome.json_ok
    THEN Raises(Exc("JSONDecodeError", <<"body is not JSON">>), <<>>)
    ELSE Returns(outcome.body, <<>>)

CatchingMsg ==
    <<"catching classes that do not inherit from BaseException is not allowed">>

\* the handlers as l.84-85 read: log the error, fall off the end (None)
get_api_answer_swallows(ts, outcome) ==
    LET body == Request(ts, outcome)
    IN  IF body.raised
        THEN Returns(NonePayload,
                     <<LogRec("root", "ERROR",
                              <<"Endpoint request error: ">> \o StrExc(body.exc))>>)
        ELSE body

\* l.81 `except requests.RequestException():` gives the except clause an
\* instance, not a class: when the try body raises, matching the exception
\* against it raises TypeError, which leaves the function; l.82-85 never run.
get_api_answer(ts, outcome) ==
    LET body == Request(ts, outcome)
    IN  IF body.raised THEN Raises(Exc("TypeError", CatchingMsg), <<>>)
        ELSE body

----------------------------------------------------------------------------
(* check_response, l.88-104 *)

TypeName(t) == <<"<class '", t, "'>">>

\* l.88-104 with an empty list of homeworks refused as well
check_response_rejects_empty(resp) ==
    IF resp.type # "dict"
    THEN LET msg == <<"Incorrect type of API response: ">> \o TypeName(resp.type)
         IN  Raises(Exc("TypeError", msg), <<LogRec("root", "ERROR", msg)>>)
    ELSE LET missing_keys == Missing(<<"homeworks", "current_date">>, resp.keys)
         IN  IF Len(missing_keys) > 0
             THEN LET msg == <<"Keys are missing: ">> \o Join(missing_keys)
                  IN  Raises(Exc("KeyError", msg), <<LogRec("root", "ERROR", msg)>>)
             ELSE IF resp.homeworks_type # "list"
             THEN LET msg == <<"Incorrect type of homework: ">>
                             \o TypeName(resp.homeworks_type)
                  IN  Raises(Exc("TypeError", msg), <<LogRec("root", "ERROR", msg)>>)
             ELSE IF Len(resp.homeworks) = 0
             THEN LET msg == <<"No homeworks in the response">>
                  IN  Raises(Exc("KeyError", msg), <<LogRec("root", "ERROR", msg)>>)
             ELSE Returns(TRUE, <<>>)

check_response(resp) ==
    IF resp.type # "dict"
    THEN LET msg == <<"Incorrect type of API response: ">> \o TypeName(resp.type)
         IN  Raises(Exc("TypeError", msg), <<LogRec("root", "ERROR", msg)>>)
    ELSE LET missing_keys == Missing(<<"homeworks", "current_date">>, resp.keys)
         IN  IF Len(missing_keys) > 0
             THEN LET msg == <<"Keys are missing: ">> \o Join(missing_keys)
                  IN  Raises(Exc("KeyError", msg), <<LogRec("root", "ERROR", msg)>>)
             ELSE IF resp.homeworks_type # "list"
             THEN LET msg == <<"Incorrect type of homework: ">>
                             \o TypeName(resp.homeworks_type)
                  IN  Raises(Exc("TypeError", msg), <<LogRec("root", "ERROR", msg)>>)
             ELSE Returns(TRUE, <<>>)

----------------------------------------------------------------------------
(* parse_status, l.107-135.  table is homework_statuses before the call;   *)
(* the result carries it after the call.                                   *)

TransitionPrefix == "Izmenilsya status proverki raboty \""

\* l.127 left out
Store_skips(table, name, st) == table

\* l.127 rebinding the table: homework_statuses = {homework_name: hw_status}
Store_replaces(table, name, st) == [n \in {name} |-> st]

\* l.127
Store(table, name, st) ==
    [n \in DOMAIN table \cup {name} |-> IF n = name THEN st ELSE table[n]]

\* l.125-126 with the first sighting of a name forgotten
StatusChanged_known_only(table, name, st) ==
    name \in DOMAIN table /\ table[name] # st

\* l.125-126 with the comparison lost: every sighting counts as a change
StatusChanged_always(table, name, st) == TRUE

\* l.125-126
StatusChanged(table, name, st) ==
    name \notin DOMAIN table \/ table[name] # st

WithTable(res, table) ==
    [raised |-> res.raised, exc |-> res.exc, value |-> res.value,
     log |-> res.log, table |-> table]

\* l.107-135 without the test of l.120-123: an unknown status is stored at
\* l.127 and l.128 raises KeyError looking it up
parse_status_unchecked(homework, table) ==
    LET missing_subkeys == Missing(<<"status", "homework_name">>, homework.keys)
    IN  IF Len(missing_subkeys) > 0
        THEN LET msg == <<"Subkeys are missing: ">> \o Join(missing_subkeys)
             IN  WithTable(Raises(Exc("KeyError", msg),
                                  <<LogRec("root", "ERROR", msg)>>), table)
        ELSE LET homework_name == homework.homework_name
                 hw_status == homework.status
             IN  IF /\ hw_status \notin DOMAIN HOMEWORK_VERDICTS
                    /\ StatusChanged(table, homework_name, hw_status)
                 THEN WithTable(Raises(Exc("KeyError", <<hw_status>>), <<>>),
                                Store(table, homework_name, hw_status))
                 ELSE IF StatusChanged(table, homework_name, hw_status)
                 THEN LET verdict == HOMEWORK_VERDICTS[hw_status]
                          message == <<TransitionPrefix, homework_name, "\". ",
                                       verdict>>
                      IN  WithTable(Returns(message,
                                            <<LogRec("__main__", "DEBUG", message)>>),
                                    Store(table, homework_name, hw_status))
                 ELSE WithTable(Returns(<<>>,
                                        <<LogRec("__main__", "DEBUG",
                                                 <<"No new statuses">>)>>), table)

parse_status(homework, table) ==
    LET missing_subkeys == Missing(<<"status", "homework_name">>, homework.keys)
    IN  IF Len(missing_subkeys) > 0
        THEN LET msg == <<"Subkeys are missing: ">> \o Join(missing_subkeys)
             IN  WithTable(Raises(Exc("KeyError", msg),
                                  <<LogRec("root", "ERROR", msg)>>), table)
        ELSE LET homework_name == homework.homework_name
                 hw_status == homework.status
             IN  IF hw_status \notin DOMAIN HOMEWORK_VERDICTS
                 THEN LET msg == <<"Incorrect status of homework: ", hw_status>>
                      IN  WithTable(Raises(Exc("KeyError", msg),
                                           <<LogRec("root", "ERROR", msg)>>), table)
                 ELSE IF StatusChanged(table, homework_name, hw_status)
                 THEN LET verdict == HOMEWORK_VERDICTS[hw_status]
                          message == <<TransitionPrefix, homework_name, "\". ",
                                       verdict>>
                      IN  WithTable(Returns(message,
                                            <<LogRec("__main__", "DEBUG", message)>>),
                                    Store(table, homework_name, hw_status))
                 ELSE WithTable(Returns(<<>>,
                                        <<LogRec("__main__", "DEBUG",
                                                 <<"No new statuses">>)>>), table)

----------------------------------------------------------------------------
(* main, l.138-161 *)

IsTransitionText(text) == Len(text) > 0 /\ text[1] = TransitionPrefix

FailurePrefix == "Sboy v rabote programmy: "

\* l.155 keeping the larger of the two values
Advance_monotone(st, resp) ==
    [st EXCEPT !.timestamp = IF resp.current_date > @ THEN resp.current_date ELSE @]

\* l.155
Advance(st, resp) == [st EXCEPT !.timestamp = resp.current_date]

\* l.156-159 with the watermark set back to the epoch
Handler_resets(e, st, delivery) ==
    LET message == <<FailurePrefix>> \o StrExc(e)
        snd == send_message(message, delivery)
    IN  [st EXCEPT !.timestamp = 0,
                   !.calls = @ \o <<"send_message">>,
                   !.sent = @ \o snd.sent,
                   !.log = @ \o <<LogRec("root", "ERROR", message)>> \o snd.log,
                   !.error = IF snd.raised THEN snd.exc ELSE e,
                   !.died = snd.raised]

\* l.156-159: st is the iteration so far, e the exception caught.  An
\* exception that leaves the handler leaves main: the process dies of it.
Handler(e, st, delivery) ==
    LET message == <<FailurePrefix>> \o StrExc(e)
        snd == send_message(message, delivery)
    IN  [st EXCEPT !.calls = @ \o <<"send_message">>,
                   !.sent = @ \o snd.sent,
                   !.log = @ \o <<LogRec("root", "ERROR", message)>> \o snd.log,
                   !.error = IF snd.raised THEN snd.exc ELSE e,
                   !.died = snd.raised]

\* l.149-159 with l.155 moved up, before the item is looked at
LoopBody_advances_first(ts, table, resp, stat, outcome, delivery) ==
    LET api == get_api_answer(ts, outcome)
        s1 == [timestamp |-> ts, homework_statuses |-> table, response |-> resp,
               status |-> stat, calls |-> <<"get_api_answer">>, sent |-> <<>>,
               log |-> api.log, error |-> NoExc, died |-> FALSE, detected |-> 0,
               homework |-> NoItem]
    IN  IF api.raised THEN Handler(api.exc, s1, delivery)
        ELSE
        LET chk == check_response(api.value)
            s2 == [s1 EXCEPT !.response = api.value,
                             !.timestamp = IF chk.raised THEN @
                                           ELSE api.value.current_date,
                             !.calls = @ \o <<"check_response">>,
                             !.log = @ \o chk.log]
        IN  IF chk.raised THEN Handler(chk.exc, s2, delivery)
            ELSE IF Len(api.value.homeworks) > 0
            THEN
            LET ps == parse_status(api.value.homeworks[1], table)
                s3 == [s2 EXCEPT !.homework_statuses = ps.table,
                                 !.homework = api.value.homeworks[1],
                                 !.calls = @ \o <<"parse_status">>,
                                 !.log = @ \o ps.log]
            IN  IF ps.raised THEN Handler(ps.exc, s3, delivery)
                ELSE
                LET snd == send_message(ps.value, delivery)
                    s4 == [s3 EXCEPT !.status = ps.value,
                                     !.detected = IF Len(ps.value) > 0 THEN 1 ELSE 0,
                                     !.calls = @ \o <<"send_message">>,
                                     !.sent = @ \o snd.sent,
                                     !.log = @ \o snd.log]
                IN  IF snd.raised THEN Handler(snd.exc, s4, delivery)
                    ELSE Advance(s4, api.value)
            ELSE Advance(s2, api.value)

\* l.149-159 with the table put back when the message is not delivered
LoopBody_rolls_back(ts, table, resp, stat, outcome, delivery) ==
    LET api == get_api_answer(ts, outcome)
        s1 == [timestamp |-> ts, homework_statuses |-> table, response |-> resp,
               status |-> stat, calls |-> <<"get_api_answer">>, sent |-> <<>>,
               log |-> api.log, error |-> NoExc, died |-> FALSE, detected |-> 0,
               homework |-> NoItem]
    IN  IF api.raised THEN Handler(api.exc, s1, delivery)
        ELSE
        LET chk == check_response(api.value)
            s2 == [s1 EXCEPT !.response = api.value,
                             !.calls = @ \o <<"check_response">>,
                             !.log = @ \o chk.log]
        IN  IF chk.raised THEN Handler(chk.exc, s2, delivery)
            ELSE IF Len(api.value.homeworks) > 0
            THEN
            LET ps == parse_status(api.value.homeworks[1], table)
                s3 == [s2 EXCEPT !.homework_statuses = ps.table,
                                 !.homework = api.value.homeworks[1],
                                 !.calls = @ \o <<"parse_status">>,
                                 !.log = @ \o ps.log]
            IN  IF ps.raised THEN Handler(ps.exc, s3, delivery)
                ELSE
                LET snd == send_message(ps.value, delivery)
                    s4 == [s3 EXCEPT !.status = ps.value,
                                     !.homework_statuses =
                                         IF snd.sent[1].delivered THEN @ ELSE table,
                                     !.detected = IF Len(ps.value) > 0 THEN 1 ELSE 0,
                                     !.calls = @ \o <<"send_message">>,
                                     !.sent = @ \o snd.sent,
                                     !.log = @ \o snd.log]
                IN  IF snd.raised THEN Handler(snd.exc, s4, delivery)
                    ELSE Advance(s4, api.value)
            ELSE Advance(s2, api.value)

\* l.149-159: one pass through the body of `while True`
LoopBody(ts, table, resp, stat, outcome, delivery) ==
    LET api == get_api_answer(ts, outcome)
        s1 == [timestamp |-> ts, homework_statuses |-> table, response |-> resp,
               status |-> stat, calls |-> <<"get_api_answer">>, sent |-> <<>>,
               log |-> api.log, error |-> NoExc, died |-> FALSE, detected |-> 0,
               homework |-> NoItem]
    IN  IF api.raised THEN Handler(api.exc, s1, delivery)
        ELSE
        LET chk == check_response(api.value)
            s2 == [s1 EXCEPT !.response = api.value,
                             !.calls = @ \o <<"check_response">>,
                             !.log = @ \o chk.log]
        IN  IF chk.raised THEN Handler(chk.exc, s2, delivery)
            ELSE IF Len(api.value.homeworks) > 0
            THEN
            LET ps == parse_status(api.value.homeworks[1], table)
                s3 == [s2 EXCEPT !.homework_statuses = ps.table,
                                 !.homework = api.value.homeworks[1],
                                 !.calls = @ \o <<"parse_status">>,
                                 !.log = @ \o ps.log]
            IN  IF ps.raised THEN Handler(ps.exc, s3, delivery)
                ELSE
                LET snd == send_message(ps.value, delivery)
                    s4 == [s3 EXCEPT !.status = ps.value,
                                     !.detected = IF Len(ps.value) > 0 THEN 1 ELSE 0,
                                     !.calls = @ \o <<"send_message">>,
                                     !.sent = @ \o snd.sent,
                                     !.log = @ \o snd.log]
                IN  IF snd.raised THEN Handler(snd.exc, s4, delivery)
                    ELSE Advance(s4, api.value)
            ELSE Advance(s2, api.value)

----------------------------------------------------------------------------
(* What the environment can do *)

TokenValues == {NoneValue, "", "token"}
Dates == 0..MaxDate
Names == {"hw1", "hw2"}
Statuses == DOMAIN HOMEWORK_VERDICTS \cup {"unknown"}
BothKeys == {"status", "homework_name"}

FullItems == {Item(BothKeys, s, n) : s \in Statuses, n \in Names}
PartialItems == {Item({"status"}, "approved", ""),
                 Item({"homework_name"}, "", "hw1"),
                 Item({}, "", "")}
Items == FullItems \cup PartialItems
OlderItem == Item(BothKeys, "approved", "hw2")

\* a list is its first (newest) item followed by older ones
HomeworkLists ==
    {<<>>} \cup {<<h>> \o [i \in 1..k |-> OlderItem] :
                     h \in Items, k \in 0..(MaxItems - 1)}

WellFormed ==
    {Payload("dict", {"homeworks", "current_date"}, "list", l, d) :
         l \in HomeworkLists, d \in Dates}

Malformed ==
    {Payload("list", {}, "none", <<>>, 0),
     Payload("dict", {}, "none", <<>>, 0)}
    \cup {Payload("dict", {"current_date"}, "none", <<>>, d) : d \in Dates}
    \cup {Payload("dict", {"homeworks"}, "list", l, 0) :
              l \in {<<>>, <<Item(BothKeys, "approved", "hw1")>>}}
    \cup {Payload("dict", {"homeworks", "current_date"}, "str", <<>>, d) :
              d \in Dates}
    \cup {Payload("dict", {"homeworks"}, "str", <<>>, 0)}

Payloads == WellFormed \cup Malformed

Reply(kind, code, ok, body) ==
    [kind |-> kind, status_code |-> code, json_ok |-> ok, body |-> body]

SampleBody ==
    Payload("dict", {"homeworks", "current_date"}, "list",
            <<Item(BothKeys, "rejected", "hw1")>>, MaxDate)

Outcomes ==
    {Reply("transport", 0, FALSE, Unbound)}
    \cup {Reply("http", c, TRUE, SampleBody) : c \in {404, 500}}
    \cup {Reply("http", HTTP_OK, FALSE, Unbound)}
    \cup {Reply("http", HTTP_OK, TRUE, b) : b \in Payloads}

NoReply == Reply("none", 0, FALSE, Unbound)

Deliveries == {"ok", "fail"}

----------------------------------------------------------------------------
(* The program *)

Init ==
    /\ TELEGRAM_CHAT_ID \in TokenValues
    /\ TELEGRAM_TOKEN \in TokenValues
    /\ PRACTICUM_TOKEN \in TokenValues
    /\ pc = "start"
    /\ timestamp = Unassigned
    /\ homework_statuses = EmptyTable
    /\ response = Unbound
    /\ from_date = Unassigned
    /\ reply = NoReply
    /\ prev_failed = FALSE
    /\ calls = <<>>
    /\ sent = <<>>
    /\ log = <<>>
    /\ status = <<>>
    /\ observed = NoItem
    /\ error = NoExc
    /\ ticks = 0
    /\ transitions = 0
    /\ transitionSends = 0

\* l.140-146: main up to the loop
Start ==
    /\ pc = "start"
    /\ IF check_tokens
       THEN /\ pc' = "loop"
            /\ \E now \in Dates : timestamp' = now
            /\ log' = <<>>
            /\ error' = NoExc
       ELSE /\ pc' = "fatal"
            /\ log' = <<LogRec("__main__", "CRITICAL",
                               <<"One of the environment variables is missing">>)>>
            /\ error' = Exc("ValueError", <<"Missing environment variables">>)
            /\ UNCHANGED timestamp
    /\ UNCHANGED <<TELEGRAM_CHAT_ID, TELEGRAM_TOKEN, PRACTICUM_TOKEN,
                   homework_statuses, response, from_date, reply, calls, sent,
                   status, observed>>
    /\ UNCHANGED histVars

\* l.149-159: one iteration, with the endpoint's and the chat's answers
Iterate(outcome, delivery) ==
    LET r == LoopBody(timestamp, homework_statuses, response, status,
                      outcome, delivery)
    IN  /\ pc = "loop"
        /\ reply' = outcome
        /\ from_date' = timestamp
        /\ pc' = IF r.died THEN "fatal" ELSE "sleep"
        /\ timestamp' = r.timestamp
        /\ homework_statuses' = r.homework_statuses
        /\ response' = r.response
        /\ status' = r.status
        /\ observed' = r.homework
        /\ calls' = r.calls
        /\ sent' = r.sent
        /\ log' = r.log
        /\ error' = r.error
        /\ UNCHANGED <<TELEGRAM_CHAT_ID, TELEGRAM_TOKEN, PRACTICUM_TOKEN>>

TransitionAttempts(s) == Cardinality({i \in DOMAIN s : IsTransitionText(s[i].text)})

Tick ==
    /\ ticks < MaxTicks
    /\ \E outcome \in Outcomes, delivery \in Deliveries :
          /\ Iterate(outcome, delivery)
          /\ UNCHANGED prev_failed
          /\ ticks' = ticks + 1
          /\ transitions' = transitions
                + LoopBody(timestamp, homework_statuses, response, status,
                           outcome, delivery).detected
          /\ transitionSends' = transitionSends + TransitionAttempts(sent')

\* l.161: time.sleep(RETRY_PERIOD) returns and the iteration is over.  Its
\* records are dropped.  The locals response and status are dead here: the
\* next iteration reads them only after l.150 and l.153 have assigned them
\* again, so the model drops their values too.
Sleep ==
    /\ pc = "sleep"
    /\ pc' = "loop"
    /\ response' = Unbound
    /\ status' = <<>>
    /\ observed' = NoItem
    /\ calls' = <<>>
    /\ sent' = <<>>
    /\ log' = <<>>
    /\ error' = NoExc
    /\ reply' = NoReply
    /\ prev_failed' = (error # NoExc)
    /\ UNCHANGED <<TELEGRAM_CHAT_ID, TELEGRAM_TOKEN, PRACTICUM_TOKEN, timestamp,
                   homework_statuses, from_date>>
    /\ UNCHANGED <<ticks, transitions, transitionSends>>

Next == Start \/ Tick \/ Sleep

Spec == Init /\ [][Next]_vars

\* The same program without the history counters, so that the loop is not
\* cut off at MaxTicks.  main is the only thread and none of its steps
\* blocks for ever (the request, the delivery and the sleep all return), so
\* the step main is at is eventually taken.
TickLive ==
    /\ \E outcome \in Outcomes, delivery \in Deliveries : Iterate(outcome, delivery)
    /\ UNCHANGED histVars

NextLive == Start \/ TickLive \/ Sleep

LiveSpec ==
    /\ Init
    /\ [][NextLive]_vars
    /\ WF_vars(NextLive)

----------------------------------------------------------------------------
(* parse_status on its own: called directly, time after time, on a table   *)
(* the program can hold, as a test of the function calls it.  ticks counts *)
(* the calls and transitions those that returned a message.                *)

Tables == UNION {[D -> DOMAIN HOMEWORK_VERDICTS] : D \in SUBSET Names}

ObserveInit ==
    /\ TELEGRAM_CHAT_ID = "token"
    /\ TELEGRAM_TOKEN = "token"
    /\ PRACTICUM_TOKEN = "token"
    /\ pc = "observe"
    /\ timestamp = Unassigned
    /\ homework_statuses \in Tables
    /\ response = Unbound
    /\ from_date = Unassigned
    /\ reply = NoReply
    /\ prev_failed = FALSE
    /\ calls = <<>>
    /\ sent = <<>>
    /\ log = <<>>
    /\ status = <<>>
    /\ observed = NoItem
    /\ error = NoExc
    /\ ticks = 0
    /\ transitions = 0
    /\ transitionSends = 0

\* l.107-135: one call of parse_status(item)
Observe ==
    /\ pc = "observe"
    /\ ticks < MaxTicks
    /\ \E item \in Items :
          LET r == parse_status(item, homework_statuses)
          IN  /\ observed' = item
              /\ homework_statuses' = r.table
              /\ status' = r.value
              /\ error' = r.exc
              /\ log' = r.log
              /\ calls' = <<"parse_status">>
              /\ ticks' = ticks + 1
              /\ transitions' = transitions + (IF Len(r.value) > 0 THEN 1 ELSE 0)
    /\ UNCHANGED <<TELEGRAM_CHAT_ID, TELEGRAM_TOKEN, PRACTICUM_TOKEN, pc,
                   timestamp, response, from_date, reply, prev_failed, sent,
                   transitionSends>>

ObserveSpec == ObserveInit /\ [][Observe]_vars

----------------------------------------------------------------------------
(* The vocabulary of the claims, over one iteration ("tick") of the loop   *)

Range(seq) == {seq[i] : i \in DOMAIN seq}

\* a step that runs one iteration
TickStep == pc = "loop" /\ pc' # "loop"

LoopStarted == pc \in {"loop", "sleep"}

\* the Status Client fails: no reply, a code other than 200, or no JSON
FetchFails ==
    \/ reply.kind = "transport"
    \/ reply.kind = "http" /\ (reply.status_code # 200 \/ ~reply.json_ok)

Non200 == reply.kind = "http" /\ reply.status_code # 200

\* the reply is a mapping with both keys whose items are a sequence
WellFormedReply ==
    /\ reply.kind = "http" /\ reply.status_code = 200 /\ reply.json_ok
    /\ reply.body.type = "dict"
    /\ reply.body.keys = {"homeworks", "current_date"}
    /\ reply.body.homeworks_type = "list"

HasItems == Len(reply.body.homeworks) > 0
FirstItem == reply.body.homeworks[1]

Recognised(item) ==
    /\ item.keys = {"status", "homework_name"}
    /\ item.status \in {"approved", "reviewing", "rejected"}

ValidationFails == reply.kind = "http" /\ ~FetchFails /\ ~WellFormedReply
ObservationFails == WellFormedReply /\ HasItems /\ ~Recognised(FirstItem)
TickFails == FetchFails \/ ValidationFails \/ ObservationFails
TickSucceeds == WellFormedReply /\ (HasItems => Recognised(FirstItem))

\* the item is a transition against the table
TransitionAgainst(item, table) ==
    \/ item.homework_name \notin DOMAIN table
    \/ table[item.homework_name] # item.status

IsFailureText(text) == Len(text) > 0 /\ text[1] = FailurePrefix

ErrorRecords == Cardinality({i \in DOMAIN log : log[i].level = "ERROR"})

AllConfigured ==
    \A v \in {TELEGRAM_CHAT_ID, TELEGRAM_TOKEN, PRACTICUM_TOKEN} :
        v # NoneValue /\ v # ""

----------------------------------------------------------------------------
(* The claims *)

\* C1: on a tick whose response is well-formed, has items, and whose first
\* item carries the status the table already holds for its name, the
\* Notifier is not invoked at all.
C1_NoTransitionNoNotifier ==
    [][(/\ TickStep
        /\ WellFormedReply' /\ HasItems' /\ Recognised(FirstItem')
        /\ ~TransitionAgainst(FirstItem', homework_statuses))
       => sent' = <<>>]_vars

\* C2: on a tick whose response is well-formed and whose first item is a
\* transition, the Notifier is invoked exactly once, with the transition
\* message holding the item's name and the verdict text of its status; and
\* over the run as many transition messages are handed to the Notifier as
\* transitions were detected.
C2_OneNotificationPerTransition ==
    [][/\ (/\ TickStep
           /\ WellFormedReply' /\ HasItems' /\ Recognised(FirstItem')
           /\ TransitionAgainst(FirstItem', homework_statuses))
          => /\ Len(sent') = 1
             /\ IsTransitionText(sent'[1].text)
             /\ FirstItem'.homework_name \in Range(sent'[1].text)
             /\ HOMEWORK_VERDICTS[FirstItem'.status] \in Range(sent'[1].text)
       /\ transitionSends' = transitions']_vars

C2_Witness ==
    /\ pc = "sleep" /\ WellFormedReply /\ HasItems
    /\ Len(sent) = 1 /\ IsTransitionText(sent[1].text)
    /\ transitions = 2 /\ ticks = 3

\* C3: once the loop has started no step ends it, and whatever stage of a
\* tick fails, the loop reaches the sleep and then issues the next fetch:
\* a failed tick at its sleep leads to the head of the loop, and from
\* there to the next request having been sent.
C3_LoopSurvivesFailures ==
    /\ [][LoopStarted => LoopStarted']_vars
    /\ (pc = "sleep" /\ TickFails) ~> (pc = "loop" /\ prev_failed)
    /\ (pc = "loop" /\ prev_failed) ~> (pc = "sleep" /\ reply # NoReply)

C3_Witness ==
    /\ pc = "sleep" /\ prev_failed /\ TickFails
    /\ Len(calls) > 0 /\ calls[1] = "get_api_answer"

\* C4: a tick in which the fetch, the validation or the observation fails
\* leaves the Watermark as it was, and the tick after it sends its request
\* with that same Watermark.
C4_FailedTickKeepsWatermark ==
    [][/\ (TickStep /\ TickFails') => timestamp' = timestamp
       /\ (TickStep /\ prev_failed) => from_date' = from_date]_vars

C4_Witness ==
    /\ pc = "sleep" /\ prev_failed /\ ObservationFails
    /\ timestamp = from_date /\ timestamp > 0

\* C5 as claimed: the Watermark after a step is never smaller than before
\* it, whatever the endpoint answers.
C5_WatermarkNeverDecreases == [][timestamp' >= timestamp]_vars

\* C5 as amended: the Watermark gets smaller only on a tick whose fetch,
\* validation and observation succeed and whose response carries a
\* current_date below the Watermark, and then it becomes that current_date.
C5_DecreasesOnlyToCurrentDate ==
    [][timestamp' < timestamp
       => /\ TickStep /\ TickSucceeds'
          /\ timestamp' = reply'.body.current_date]_vars

C5_Witness ==
    pc = "sleep" /\ TickSucceeds /\ timestamp < from_date

\* C6: a tick whose fetch, validation and observation succeed leaves the
\* Watermark equal to the response's current_date, with or without items,
\* with or without a transition.
C6_SuccessSetsWatermark ==
    [][(TickStep /\ TickSucceeds') => timestamp' = reply'.body.current_date]_vars

C6_Witness ==
    /\ pc = "sleep" /\ TickSucceeds /\ HasItems /\ status = <<>>
    /\ timestamp = reply.body.current_date /\ timestamp < from_date

\* C7 as claimed: a tick answered with a code other than 200 logs exactly
\* one error record, attempts exactly one failure notification and leaves
\* the Watermark as it was.
C7_Non200OneErrorRecord ==
    (pc # "loop" /\ Non200)
    => /\ ErrorRecords = 1
       /\ Len(sent) = 1 /\ IsFailureText(sent[1].text)
       /\ timestamp = from_date

\* C7 as amended: such a tick logs one error record for the failure, and a
\* second one exactly when delivery of the failure notification fails; it
\* attempts exactly one failure notification and leaves the Watermark.
C7_Non200ErrorRecords ==
    (pc # "loop" /\ Non200)
    => /\ Len(sent) = 1 /\ IsFailureText(sent[1].text)
       /\ ErrorRecords = (IF sent[1].delivered THEN 1 ELSE 2)
       /\ timestamp = from_date

C7_Witness ==
    /\ pc = "sleep" /\ Non200 /\ reply.status_code = 500
    /\ Len(sent) = 1 /\ ~sent[1].delivered /\ ErrorRecords = 2

\* C8: a tick in which the Status Client fails calls neither check_response
\* nor parse_status and leaves the StatusTable as it was.
C8_FetchFailureShortCircuits ==
    [][(TickStep /\ FetchFails')
       => /\ "check_response" \notin Range(calls')
          /\ "parse_status" \notin Range(calls')
          /\ homework_statuses' = homework_statuses]_vars

C8_Witness ==
    /\ pc = "sleep" /\ FetchFails /\ reply.kind = "http" /\ ~reply.json_ok
    /\ calls = <<"get_api_answer", "send_message">>
    /\ homework_statuses # EmptyTable

\* C9: answered with a code other than 200, get_api_answer returns nothing
\* and fails towards main with a StatusCodeError that carries the code.
C9_Non200RaisesStatusCodeError ==
    (pc # "loop" /\ Non200)
    => /\ "check_response" \notin Range(calls)
       /\ error.type = "StatusCodeError"
       /\ ToString(reply.status_code) \in Range(error.msg)

\* C10: with one of the three configuration values absent or empty main
\* fails before the loop: it never sends a request or a notification and
\* never touches the Watermark or the StatusTable; with all three present
\* it enters the loop.
C10_LoopNeedsConfiguration ==
    /\ ~AllConfigured
       => /\ pc \in {"start", "fatal"}
          /\ from_date = Unassigned /\ reply = NoReply /\ calls = <<>>
          /\ sent = <<>>
          /\ timestamp = Unassigned /\ homework_statuses = EmptyTable
    /\ (~AllConfigured /\ pc # "start")
       => (pc = "fatal" /\ error.type = "ValueError")
    /\ (AllConfigured /\ pc # "start")
       => (LoopStarted /\ timestamp # Unassigned)

C10_Witness ==
    /\ pc = "fatal" /\ TELEGRAM_TOKEN = ""
    /\ TELEGRAM_CHAT_ID = "token" /\ PRACTICUM_TOKEN = "token"

\* a step that calls parse_status on its own
ObserveStep == pc = "observe" /\ ticks' # ticks

\* the reply carries a decoded payload
Decoded == reply.kind = "http" /\ reply.status_code = 200 /\ reply.json_ok

\* check_response failed: the handler ran straight after it
CheckResponseFailed ==
    /\ calls = <<"get_api_answer", "check_response", "send_message">>
    /\ error # NoExc

DeliveryFailed == \E i \in DOMAIN sent : ~sent[i].delivered

SendingErrors ==
    Cardinality({i \in DOMAIN log :
                    /\ log[i].level = "ERROR"
                    /\ log[i].msg[1] = "Error sending message: "})

\* C11: a tick whose response is well-formed with an empty items sequence
\* does not call parse_status, does not invoke the Notifier, leaves the
\* StatusTable as it was and is no error.
C11_EmptyItemsIsQuiet ==
    [][(TickStep /\ WellFormedReply' /\ ~HasItems')
       => /\ "parse_status" \notin Range(calls')
          /\ sent' = <<>>
          /\ homework_statuses' = homework_statuses
          /\ error' = NoExc /\ ErrorRecords' = 0
          /\ pc' = "sleep"]_vars

C11_Witness ==
    /\ pc = "sleep" /\ WellFormedReply /\ ~HasItems
    /\ calls = <<"get_api_answer", "check_response">>
    /\ homework_statuses # EmptyTable
    /\ timestamp = reply.body.current_date /\ timestamp # from_date

\* C12: a delivery failure never leaves send_message, for a transition
\* message or a failure message: it is logged, and the tick goes on as with
\* a delivery that worked (a successful tick sets the Watermark to
\* current_date, a failed one reaches the sleep).
C12_DeliveryFailureSwallowed ==
    DeliveryFailed
    => /\ pc = "sleep"
       /\ error.type # "TelegramError"
       /\ Len(sent) = 1 /\ SendingErrors = 1
       /\ TickSucceeds => (error = NoExc /\ timestamp = reply.body.current_date)
       /\ TickFails => (IsFailureText(sent[1].text) /\ timestamp = from_date)

C12_Witness ==
    /\ pc = "sleep" /\ TickSucceeds /\ DeliveryFailed
    /\ IsTransitionText(sent[1].text)
    /\ timestamp = reply.body.current_date /\ timestamp # from_date

\* C13: parse_status called twice in succession with the same name and
\* recognised status returns nothing the second time and leaves the
\* StatusTable as the first call left it, whatever the table was before.
C13_ObserveIdempotent ==
    [][(ObserveStep /\ calls # <<>> /\ Recognised(observed) /\ observed' = observed)
       => /\ status' = <<>>
          /\ error' = NoExc
          /\ homework_statuses' = homework_statuses]_vars

C13_Witness ==
    /\ pc = "observe" /\ ticks = 2 /\ transitions = 1
    /\ Recognised(observed) /\ status = <<>> /\ error = NoExc
    /\ DOMAIN homework_statuses = {observed.homework_name}

\* C14: for an item with a recognised status whose name is not in the
\* StatusTable or is stored with another status, parse_status returns the
\* message `Izmenilsya status proverki raboty "<name>". <verdict text>` and
\* afterwards the table holds the incoming status for the name.
C14_TransitionMessageAndStore ==
    [][(ObserveStep /\ Recognised(observed')
           /\ TransitionAgainst(observed', homework_statuses))
       => /\ error' = NoExc
          /\ status' = <<"Izmenilsya status proverki raboty \"",
                         observed'.homework_name, "\". ",
                         HOMEWORK_VERDICTS[observed'.status]>>
          /\ observed'.homework_name \in DOMAIN homework_statuses'
          /\ homework_statuses'[observed'.homework_name] = observed'.status]_vars

C14_Witness ==
    /\ pc = "observe" /\ transitions = 2 /\ Len(status) > 0
    /\ observed.homework_name = "hw1" /\ observed.status = "rejected"
    /\ "hw1" \in DOMAIN homework_statuses
    /\ homework_statuses["hw1"] = "rejected"

\* C15: for a first item that lacks homework_name or status, or whose status
\* is no key of the catalog, parse_status fails with an error naming every
\* missing subkey or the invalid status; the tick sends one failure
\* notification, no transition notification, and keeps the Watermark.
C15_BadItemFails ==
    (pc # "loop" /\ ObservationFails)
    => /\ calls = <<"get_api_answer", "check_response", "parse_status",
                    "send_message">>
       /\ error # NoExc
       /\ \A k \in {"status", "homework_name"} \ FirstItem.keys :
             k \in Range(error.msg)
       /\ FirstItem.keys = {"status", "homework_name"}
             => FirstItem.status \in Range(error.msg)
       /\ Len(sent) = 1 /\ IsFailureText(sent[1].text)
       /\ ~IsTransitionText(sent[1].text)
       /\ timestamp = from_date

C15_Witness ==
    /\ pc = "sleep" /\ ObservationFails /\ FirstItem.keys = {}
    /\ Len(sent) = 1 /\ timestamp = from_date
    /\ reply.body.current_date # timestamp

\* C16: check_response fails on a payload that is no mapping; on a mapping
\* that lacks homeworks and/or current_date it fails with one error naming
\* every missing key; it fails when homeworks is no sequence; on every other
\* payload it succeeds.
C16_ValidateNamesMissingKeys ==
    (pc # "loop" /\ Decoded)
    => /\ reply.body.type # "dict" => CheckResponseFailed
       /\ (reply.body.type = "dict"
              /\ reply.body.keys # {"homeworks", "current_date"})
          => /\ CheckResponseFailed
             /\ \A k \in {"homeworks", "current_date"} \ reply.body.keys :
                   k \in Range(error.msg)
       /\ (reply.body.type = "dict"
              /\ reply.body.keys = {"homeworks", "current_date"}
              /\ reply.body.homeworks_type # "list")
          => CheckResponseFailed
       /\ WellFormedReply
          => /\ ~CheckResponseFailed
             /\ HasItems => (Len(calls) > 2 /\ calls[3] = "parse_status")
             /\ ~HasItems => error = NoExc

C16_Witness ==
    /\ pc = "sleep" /\ Decoded /\ reply.body.type = "dict"
    /\ reply.body.keys = {}
    /\ "homeworks" \in Range(error.msg) /\ "current_date" \in Range(error.msg)

\* the third of three calls: a, then b under another name, then a again
ThirdCallIsSilent ==
    \A a \in FullItems, b \in FullItems :
        (Recognised(a) /\ Recognised(b) /\ a.homework_name # b.homework_name)
        => LET t1 == parse_status(a, homework_statuses).table
               t2 == parse_status(b, t1).table
           IN  parse_status(a, t2).value = <<>>

\* C17: parse_status changes the StatusTable only on a transition and then
\* only the entry of the item's name: a call without a transition and a
\* call that fails leave the table alone, no call touches the entry of
\* another name, and after a, then b under another name, a again yields no
\* message.
C17_ObserveTouchesOnlyItsName ==
    /\ [][ObserveStep
          => /\ DOMAIN homework_statuses \subseteq DOMAIN homework_statuses'
             /\ \A n \in DOMAIN homework_statuses' :
                   n # observed'.homework_name
                   => /\ n \in DOMAIN homework_statuses
                      /\ homework_statuses'[n] = homework_statuses[n]
             /\ (error' # NoExc \/ status' = <<>>)
                   => homework_statuses' = homework_statuses
             /\ homework_statuses' # homework_statuses
                   => /\ Recognised(observed')
                      /\ TransitionAgainst(observed', homework_statuses)]_vars
    /\ [](pc = "observe" => ThirdCallIsSilent)

C17_Witness ==
    /\ pc = "observe" /\ ticks = 3 /\ transitions = 2
    /\ status = <<>> /\ error = NoExc
    /\ DOMAIN homework_statuses = {"hw1", "hw2"}
    /\ observed.homework_name = "hw1"

\* C18: every value the StatusTable holds is a key of the catalog, and no
\* step removes a name from the table.
C18_TableHoldsCatalogKeys ==
    /\ [][DOMAIN homework_statuses \subseteq DOMAIN homework_statuses']_vars
    /\ [](\A n \in DOMAIN homework_statuses :
             homework_statuses[n] \in {"approved", "reviewing", "rejected"})

C18_Witness ==
    /\ pc = "sleep" /\ ObservationFails
    /\ FirstItem.keys = {"status", "homework_name"}
    /\ FirstItem.status = "unknown"
    /\ DOMAIN homework_statuses = {"hw1", "hw2"}

\* C19: on the tick that detects a transition the StatusTable is written
\* before the message is sent and stays written when delivery fails, and
\* the Watermark advances; a later tick with the same name and status
\* produces no transition message, so that message is not sent again.
C19_NoRedeliveryAfterFailure ==
    [][/\ (/\ TickStep
           /\ WellFormedReply' /\ HasItems' /\ Recognised(FirstItem')
           /\ TransitionAgainst(FirstItem', homework_statuses)
           /\ DeliveryFailed')
          => /\ pc' = "sleep"
             /\ FirstItem'.homework_name \in DOMAIN homework_statuses'
             /\ homework_statuses'[FirstItem'.homework_name] = FirstItem'.status
             /\ timestamp' = reply'.body.current_date
       /\ (/\ TickStep
           /\ WellFormedReply' /\ HasItems' /\ Recognised(FirstItem')
           /\ ~TransitionAgainst(FirstItem', homework_statuses))
          => /\ \A i \in DOMAIN sent' : ~IsTransitionText(sent'[i].text)
             /\ homework_statuses' = homework_statuses]_vars

C19_Witness ==
    /\ pc = "sleep" /\ WellFormedReply /\ HasItems /\ Recognised(FirstItem)
    /\ Len(sent) = 1 /\ IsTransitionText(sent[1].text) /\ ~sent[1].delivered
    /\ homework_statuses[FirstItem.homework_name] = FirstItem.status
    /\ timestamp = reply.body.current_date /\ timestamp # from_date

====
